---- MODULE Spec2Model ----
(***************************************************************************)
(* Video -> Audio -> Transcript -> Summary pipeline of AdamsAI, with the   *)
(* independent PromptTemplate table.  The tables are the SQLAlchemy models *)
(* of app/models.py; every action is one service (or repository) call.     *)
(* handle_transcription and handle_summary_generation suspend on their     *)
(* gateway call (await), so each is a Begin step and a Finish step with    *)
(* the request kept in pending in between.                                  *)
(***************************************************************************)
EXTENDS Integers, FiniteSets, Sequences, TLC

VARIABLES videos, audios, transcripts, summaries, templates, files, now, pending, last

vars == <<videos, audios, transcripts, summaries, templates, files, now, pending, last>>

----------------------------------------------------------------------------
(* Bounds of the model *)

MaxVideos == 2
MaxAudios == 2
MaxTranscripts == 2
MaxSummaries == 2
MaxTemplates == 2
MaxTime == 4
MaxPending == 1
MaxCallers == 2

(* Input alphabets *)

Stems == {"a", "b"}
Exts == {"mp4"}
Durations == {42, 7}
Texts == {"hello"}
SummaryTexts == {"world"}
Languages == {"ko"}
Names == {"", "foo"}
\* a template body is the set of replacement fields it contains
Contents == {{}, {"transcript"}, {"transcript", "other"}}
ModelInputs == {"<None>", "", "gpt"}
StatusInputs == {"processing", "bogus"}
Urls == {"", "not-a-url", "ftp://h/v", "https:///v", "https://h/v", "http://h/v.m3u8"}

(* None / NULL encodings: row ids start at 1, so 0 is a real integer input *)
(* and NULL needs its own value.                                            *)
NoneId == -1
NoneName == "<None>"
NoneModel == "<None>"
Null == -1

----------------------------------------------------------------------------
(* Program constants *)

\* a set of statuses that lets any string through
VIDEO_VALID_STATUSES_Any == {"uploaded", "processing", "completed", "failed", "bogus"}

VIDEO_VALID_STATUSES == {"uploaded", "processing", "completed", "failed"}
AUDIO_VALID_STATUSES == {"extracted", "processing", "completed", "failed"}
default_llm_model == "anthropic/claude-3.5-sonnet"
default_whisper_model == "whisper-1"

----------------------------------------------------------------------------
(* Table helpers: a table is a function from the ids of its rows to rows *)

Max(S) == CHOOSE x \in S : \A y \in S : y <= x

\* INTEGER PRIMARY KEY of SQLite without AUTOINCREMENT: largest rowid + 1
NextId(t) == IF DOMAIN t = {} THEN 1 ELSE Max(DOMAIN t) + 1

Insert(t, id, row) == [i \in DOMAIN t \cup {id} |-> IF i = id THEN row ELSE t[i]]

Remove(t, ids) == [i \in DOMAIN t \ ids |-> t[i]]

\* Python truthiness of Optional[int] / Optional[str] arguments
TruthyId(x) == x # NoneId /\ x # 0
TruthyStr(x) == x # NoneName /\ x # ""

\* What the last finished step did, as its caller and the database saw it:
\* the operation, its id argument, the outcome, the number of gateway calls
\* the request made, and the number of rows its statements deleted or updated
\* besides inserting (the rowcount of the flush).
Effect(op, arg, result, gw, n) ==
    [op |-> op, arg |-> arg, result |-> result, gw |-> gw, n |-> n]

Response(op, arg, result, gw) == Effect(op, arg, result, gw, 0)

----------------------------------------------------------------------------
(* File storage.  files.paths is the set of paths that hold a file.  Only  *)
(* the specifications that start from a tracked storage follow the files;  *)
(* in the others the storage is left out and files never changes.          *)

Untracked == [tracked |-> FALSE, paths |-> {}]

\* save_upload_file, and the files ffmpeg and the downloader write
write_file(path) ==
    IF files.tracked THEN [files EXCEPT !.paths = @ \cup {path}] ELSE files

\* file_utils.delete_file_safe: the file is unlinked; or unlink raises, the
\* error is caught, False is returned and the file stays (unlinked FALSE)
delete_file_safe(path, unlinked) ==
    IF files.tracked /\ unlinked THEN [files EXCEPT !.paths = @ \ {path}] ELSE files

----------------------------------------------------------------------------
(* Relationships and their delete cascades (models.py) *)

AudiosOf(vs) == {a \in DOMAIN audios : audios[a].video_id \in vs}
TranscriptsOf(as) == {t \in DOMAIN transcripts : transcripts[t].audio_id \in as}
SummariesOf(ts) == {s \in DOMAIN summaries : summaries[s].transcript_id \in ts}

Init ==
    /\ videos = <<>>
    /\ audios = <<>>
    /\ transcripts = <<>>
    /\ summaries = <<>>
    /\ templates = <<>>
    /\ files = Untracked
    /\ now = 0
    /\ pending = {}
    /\ last = Response("init", 0, "ok", 0)

----------------------------------------------------------------------------
(* Video ingestion *)

\* filepath UNIQUE constraints of videos and audios
VideoPathInUse(p) == \E v \in DOMAIN videos : videos[v].filepath = p
AudioPathInUse(p) == \E a \in DOMAIN audios : audios[a].filepath = p

\* Path(video.filepath).stem + ".mp3" under audios_dir
AudioPath(p) == [stem |-> p.stem, ext |-> "mp3"]

\* handle_video_upload: the stored name carries a random 8-hex-digit prefix,
\* so the path is any path; validFile is the outcome of validate_video_file
\* and the size check, metadataOk the outcome of get_video_info.
handle_video_upload(stem, ext, validFile, metadataOk) ==
    LET path == [stem |-> stem, ext |-> ext]
        id == NextId(videos)
    IN  /\ UNCHANGED <<audios, transcripts, summaries, templates, now, pending>>
        /\ IF ~validFile
           THEN /\ last' = Response("upload", 0, "InvalidInput", 0)
                /\ UNCHANGED <<videos, files>>
           ELSE IF ~metadataOk
           THEN \* the file was saved and is deleted again
                /\ last' = Response("upload", 0, "ProcessingFailed", 0)
                /\ UNCHANGED videos
                /\ \E unlinked \in BOOLEAN :
                      files' = IF unlinked THEN delete_file_safe(path, TRUE)
                               ELSE write_file(path)
           ELSE IF VideoPathInUse(path)
           THEN /\ last' = Response("upload", 0, "IntegrityError", 0)
                /\ UNCHANGED videos
                /\ files' = write_file(path)
           ELSE /\ id <= MaxVideos
                /\ files' = write_file(path)
                /\ videos' = Insert(videos, id,
                       [filepath |-> path, source_type |-> "upload",
                        source_url |-> NoneName, status |-> "uploaded"])
                /\ last' = Response("upload", id, "ok", 0)

\* video_service.update_video_status
update_video_status(video_id, status) ==
    /\ UNCHANGED <<audios, transcripts, summaries, templates, now, pending, files>>
    /\ IF status \notin VIDEO_VALID_STATUSES
       THEN /\ last' = Response("update_video_status", video_id, "InvalidInput", 0)
            /\ UNCHANGED videos
       ELSE IF video_id \notin DOMAIN videos
       THEN /\ last' = Response("update_video_status", video_id, "NotFound", 0)
            /\ UNCHANGED videos
       ELSE /\ videos' = [videos EXCEPT ![video_id].status = status]
            /\ last' = Response("update_video_status", video_id, "ok", 0)

\* urllib.parse.urlparse on the input alphabet: scheme and netloc
urlparse(url) ==
    CASE url = "" -> [scheme |-> "", netloc |-> ""]
      [] url = "not-a-url" -> [scheme |-> "", netloc |-> ""]
      [] url = "ftp://h/v" -> [scheme |-> "ftp", netloc |-> "h"]
      [] url = "https:///v" -> [scheme |-> "https", netloc |-> ""]
      [] url = "https://h/v" -> [scheme |-> "https", netloc |-> "h"]
      [] url = "http://h/v.m3u8" -> [scheme |-> "http", netloc |-> "h"]

\* the scheme checked and the host not
is_valid_url_SchemeOnly(url) == urlparse(url).scheme \in {"http", "https"}

\* validators.is_valid_url
is_valid_url(url) ==
    /\ url # ""
    /\ urlparse(url).scheme \in {"http", "https"}
    /\ urlparse(url).netloc # ""

\* What download_video_from_url can do: raise, return None, or return a
\* dict with the path of the file; hasFilename says whether the dict has the
\* "filename" key the handler reads (the dicts built in utils/downloader.py
\* carry "title" and no "filename").
DownloadOutcomes ==
    {[kind |-> k, stem |-> "", hasFilename |-> FALSE] : k \in {"raise", "null"}}
        \cup {[kind |-> "ok", stem |-> st, hasFilename |-> b] : st \in Stems, b \in BOOLEAN}

\* a download that returned None recorded as a failed Video
handle_video_download_FailedRow(url, outcome) ==
    /\ UNCHANGED <<audios, transcripts, summaries, templates, now, pending>>
    /\ \* download_video_from_url has written the file it reports
       files' = IF is_valid_url(url) /\ outcome.kind = "ok"
                THEN write_file([stem |-> outcome.stem, ext |-> "mp4"])
                ELSE files
    /\ IF ~is_valid_url(url)
       THEN /\ last' = Response("download", 0, "InvalidInput", 0)
            /\ UNCHANGED videos
       ELSE IF outcome.kind = "raise"
       THEN /\ last' = Response("download", 0, "DownloadFailed", 1)
            /\ UNCHANGED videos
       ELSE IF outcome.kind = "ok" /\ ~outcome.hasFilename
       THEN /\ last' = Response("download", 0, "KeyError", 1)
            /\ UNCHANGED videos
       ELSE LET path == [stem |-> outcome.stem, ext |-> "mp4"]
                id == NextId(videos)
            IN  IF VideoPathInUse(path)
                THEN /\ last' = Response("download", 0, "IntegrityError", 1)
                     /\ UNCHANGED videos
                ELSE /\ id <= MaxVideos
                     /\ videos' = Insert(videos, id,
                            [filepath |-> path, source_type |-> "download",
                             source_url |-> url,
                             status |-> IF outcome.kind = "null" THEN "failed" ELSE "uploaded"])
                     /\ last' = Response("download", id,
                                         IF outcome.kind = "null" THEN "DownloadFailed" ELSE "ok", 1)

\* video_service.handle_video_download; download_video_from_url is called
\* synchronously, so the handler is one step.  download_result["filename"]
\* on None raises TypeError, on a dict without the key KeyError.
handle_video_download(url, outcome) ==
    /\ UNCHANGED <<audios, transcripts, summaries, templates, now, pending>>
    /\ \* download_video_from_url has written the file it reports
       files' = IF is_valid_url(url) /\ outcome.kind = "ok"
                THEN write_file([stem |-> outcome.stem, ext |-> "mp4"])
                ELSE files
    /\ IF ~is_valid_url(url)
       THEN /\ last' = Response("download", 0, "InvalidInput", 0)
            /\ UNCHANGED videos
       ELSE IF outcome.kind = "raise"
       THEN /\ last' = Response("download", 0, "DownloadFailed", 1)
            /\ UNCHANGED videos
       ELSE IF outcome.kind = "null"
       THEN /\ last' = Response("download", 0, "TypeError", 1)
            /\ UNCHANGED videos
       ELSE IF ~outcome.hasFilename
       THEN /\ last' = Response("download", 0, "KeyError", 1)
            /\ UNCHANGED videos
       ELSE LET path == [stem |-> outcome.stem, ext |-> "mp4"]
                id == NextId(videos)
            IN  IF VideoPathInUse(path)
                THEN /\ last' = Response("download", 0, "IntegrityError", 1)
                     /\ UNCHANGED videos
                ELSE /\ id <= MaxVideos
                     /\ videos' = Insert(videos, id,
                            [filepath |-> path, source_type |-> "download",
                             source_url |-> url, status |-> "uploaded"])
                     /\ last' = Response("download", id, "ok", 1)

----------------------------------------------------------------------------
(* Audio extraction: the gateway is called synchronously; its outcome is  *)
(* "raise", "fail" (success flag False) or a duration (success flag True) *)

ExtractOutcomes ==
    {[kind |-> k, duration |-> Null] : k \in {"raise", "fail"}}
        \cup {[kind |-> "ok", duration |-> d] : d \in Durations}

\* a failure flag of the gateway answered by marking the video failed
handle_audio_extraction_IgnoresFlag(video_id, outcome) ==
    /\ UNCHANGED <<transcripts, summaries, templates, now, pending>>
    /\ \* extract_audio_from_video has written the audio file it reports
       files' = IF video_id \in DOMAIN videos /\ outcome.kind = "ok"
                THEN write_file(AudioPath(videos[video_id].filepath))
                ELSE files
    /\ IF video_id \notin DOMAIN videos
       THEN /\ last' = Response("extract_audio", video_id, "NotFound", 0)
            /\ UNCHANGED <<videos, audios>>
       ELSE IF outcome.kind = "raise"
       THEN /\ last' = Response("extract_audio", video_id, "ExtractionFailed", 1)
            /\ UNCHANGED <<videos, audios>>
       ELSE IF outcome.kind = "fail"
       THEN /\ last' = Response("extract_audio", video_id, "ExtractionFailed", 1)
            /\ videos' = [videos EXCEPT ![video_id].status = "failed"]
            /\ UNCHANGED audios
       ELSE LET path == [stem |-> videos[video_id].filepath.stem, ext |-> "mp3"]
                id == IF DOMAIN audios = {} THEN 1 ELSE Max(DOMAIN audios) + 1
            IN  /\ UNCHANGED videos
                /\ IF \E a \in DOMAIN audios : audios[a].filepath = path
                   THEN /\ last' = Response("extract_audio", video_id, "IntegrityError", 1)
                        /\ UNCHANGED audios
                   ELSE /\ id <= MaxAudios
                        /\ audios' = Insert(audios, id,
                               [video_id |-> video_id, filepath |-> path,
                                duration |-> outcome.duration, status |-> "extracted"])
                        /\ last' = Response("extract_audio", video_id, "ok", 1)

\* the Audio stored with the status of its Video and without the duration
AudioCreate_Bare(video_id, path, duration) ==
    [video_id |-> video_id, filepath |-> path,
     duration |-> Null, status |-> videos[video_id].status]

\* AudioCreate(video_id=..., filepath=..., duration=duration, status="extracted")
AudioCreate(video_id, path, duration) ==
    [video_id |-> video_id, filepath |-> path,
     duration |-> duration, status |-> "extracted"]

handle_audio_extraction(video_id, outcome) ==
    /\ UNCHANGED <<videos, transcripts, summaries, templates, now, pending>>
    /\ \* extract_audio_from_video has written the audio file it reports
       files' = IF video_id \in DOMAIN videos /\ outcome.kind = "ok"
                THEN write_file(AudioPath(videos[video_id].filepath))
                ELSE files
    /\ IF video_id \notin DOMAIN videos
       THEN /\ last' = Response("extract_audio", video_id, "NotFound", 0)
            /\ UNCHANGED audios
       ELSE IF outcome.kind \in {"raise", "fail"}
       THEN /\ last' = Response("extract_audio", video_id, "ExtractionFailed", 1)
            /\ UNCHANGED audios
       ELSE LET path == AudioPath(videos[video_id].filepath)
                id == NextId(audios)
            IN  IF AudioPathInUse(path)
                THEN /\ last' = Response("extract_audio", video_id, "IntegrityError", 1)
                     /\ UNCHANGED audios
                ELSE /\ id <= MaxAudios
                     /\ audios' = Insert(audios, id,
                            AudioCreate(video_id, path, outcome.duration))
                     /\ last' = Response("extract_audio", video_id, "ok", 1)

\* audio_service.update_audio_status
update_audio_status(audio_id, status) ==
    /\ UNCHANGED <<videos, transcripts, summaries, templates, now, pending, files>>
    /\ IF status \notin AUDIO_VALID_STATUSES
       THEN /\ last' = Response("update_audio_status", audio_id, "InvalidInput", 0)
            /\ UNCHANGED audios
       ELSE IF audio_id \notin DOMAIN audios
       THEN /\ last' = Response("update_audio_status", audio_id, "NotFound", 0)
            /\ UNCHANGED audios
       ELSE /\ audios' = [audios EXCEPT ![audio_id].status = status]
            /\ last' = Response("update_audio_status", audio_id, "ok", 0)

----------------------------------------------------------------------------
(* Transcription: handle_transcription awaits call_whisper_api *)

\* the resolved template id not handed on to SummaryCreate
Request_TemplateDropped(op, parent, language, model, tpl) ==
    [op |-> op, parent |-> parent, language |-> language, model |-> model, tpl |-> Null]

Request(op, parent, language, model, tpl) ==
    [op |-> op, parent |-> parent, language |-> language, model |-> model, tpl |-> tpl]

\* the connection without PRAGMA foreign_keys=ON: no INSERT is refused
ForeignKeyFails_PragmaOff(req) == FALSE

\* PRAGMA foreign_keys=ON: the INSERT of the stage's row is refused when a
\* row it references is gone
ForeignKeyFails(req) ==
    IF req.op = "transcribe" THEN req.parent \notin DOMAIN audios
    ELSE \/ req.parent \notin DOMAIN transcripts
         \/ (req.tpl # Null /\ req.tpl \notin DOMAIN templates)

\* up to the await: load the audio, dispatch the gateway call
handle_transcription_begin(audio_id, language) ==
    /\ UNCHANGED <<videos, audios, transcripts, summaries, templates, now, files>>
    /\ IF audio_id \notin DOMAIN audios
       THEN /\ last' = Response("transcribe", audio_id, "NotFound", 0)
            /\ UNCHANGED pending
       ELSE /\ Cardinality(pending) < MaxPending
            /\ pending' = pending \cup {Request("transcribe", audio_id, language, NoneModel, Null)}
            /\ last' = Response("transcribe", audio_id, "suspended", 1)

\* an empty gateway result accepted
EmptyText_Accepted(text) == FALSE

\* `if not transcribed_text` / `if not summary_text`
EmptyText(text) == text = ""

\* after the await: the gateway raised, or returned text
handle_transcription_finish(req, raised, text) ==
    /\ req \in pending
    /\ req.op = "transcribe"
    /\ pending' = pending \ {req}
    /\ UNCHANGED <<videos, audios, summaries, templates, now, files>>
    /\ IF raised
       THEN /\ last' = Response("transcribe", req.parent, "TranscriptionFailed", 1)
            /\ UNCHANGED transcripts
       ELSE IF EmptyText(text)
       THEN /\ last' = Response("transcribe", req.parent, "EmptyResult", 1)
            /\ UNCHANGED transcripts
       ELSE IF ForeignKeyFails(req)
       THEN \* FOREIGN KEY(audio_id) fails at the INSERT
            /\ last' = Response("transcribe", req.parent, "IntegrityError", 1)
            /\ UNCHANGED transcripts
       ELSE LET id == NextId(transcripts)
            IN  /\ id <= MaxTranscripts
                /\ transcripts' = Insert(transcripts, id,
                       [audio_id |-> req.parent, text |-> text,
                        language |-> req.language, model |-> default_whisper_model])
                /\ last' = Response("transcribe", req.parent, "ok", 1)

----------------------------------------------------------------------------
(* Template resolution: summary_service.get_prompt_template_content *)

get_prompt_template_by_id(template_id) ==
    IF template_id \in DOMAIN templates THEN template_id ELSE Null

get_prompt_template_by_name(name) ==
    IF \E t \in DOMAIN templates : templates[t].name = name
    THEN CHOOSE t \in DOMAIN templates : templates[t].name = name
    ELSE Null

\* the is_active filter left out
get_active_prompt_templates_Unfiltered == DOMAIN templates

\* filter(is_active == True).order_by(created_at.desc())
get_active_prompt_templates ==
    {t \in DOMAIN templates : templates[t].is_active}

FirstActive ==
    LET act == get_active_prompt_templates
    IN  IF act = {} THEN Null
        ELSE CHOOSE t \in act : \A u \in act : templates[u].created_at <= templates[t].created_at

get_prompt_template_content(template_name, template_id) ==
    LET template == IF TruthyId(template_id) THEN get_prompt_template_by_id(template_id)
                    ELSE IF TruthyStr(template_name) THEN get_prompt_template_by_name(template_name)
                    ELSE FirstActive
    IN  IF template = Null THEN [kind |-> "NotFound", id |-> Null]
        ELSE IF ~templates[template].is_active THEN [kind |-> "Inactive", id |-> Null]
        ELSE [kind |-> "ok", id |-> template]

\* template_content.format(transcript=...): a replacement field other than
\* {transcript} raises KeyError; a body without fields is returned as it is.
FormatRaises(content) == \E field \in content : field # "transcript"

----------------------------------------------------------------------------
(* Summarization: handle_summary_generation awaits call_openrouter_api *)

\* the template resolved before the transcript is looked up
SummaryPrecheck_TemplateFirst(transcript_id, template_name, template_id) ==
    LET r == get_prompt_template_content(template_name, template_id)
    IN  IF r.kind # "ok" THEN "TemplateError"
        ELSE IF transcript_id \notin DOMAIN transcripts THEN "NotFound"
        ELSE IF FormatRaises(templates[r.id].content) THEN "KeyError"
        ELSE "ok"

\* a failed resolution swallowed: the call goes on without a template
SummaryPrecheck_ErrorSwallowed(transcript_id, template_name, template_id) ==
    LET r == get_prompt_template_content(template_name, template_id)
    IN  IF transcript_id \notin DOMAIN transcripts THEN "NotFound"
        ELSE IF r.kind = "ok" /\ FormatRaises(templates[r.id].content) THEN "KeyError"
        ELSE "ok"

\* the steps of handle_summary_generation before the gateway call, in order:
\* transcript lookup, template resolution, prompt formatting
SummaryPrecheck(transcript_id, template_name, template_id) ==
    LET r == get_prompt_template_content(template_name, template_id)
    IN  IF transcript_id \notin DOMAIN transcripts THEN "NotFound"
        ELSE IF r.kind # "ok" THEN "TemplateError"
        ELSE IF FormatRaises(templates[r.id].content) THEN "KeyError"
        ELSE "ok"

\* the configured default used whatever the caller supplied
SelectModel_AlwaysDefault(model_name) == default_llm_model

\* `if not model_name: model_name = settings.default_llm_model`
SelectModel(model_name) ==
    IF model_name # NoneModel /\ model_name # "" THEN model_name
    ELSE default_llm_model

handle_summary_generation_begin(transcript_id, model_name, template_name, template_id) ==
    LET r == get_prompt_template_content(template_name, template_id)
        check == SummaryPrecheck(transcript_id, template_name, template_id)
        model == SelectModel(model_name)
    IN  /\ UNCHANGED <<videos, audios, transcripts, summaries, templates, now, files>>
        /\ IF check # "ok"
           THEN /\ last' = Response("summarize", transcript_id, check, 0)
                /\ UNCHANGED pending
           ELSE /\ Cardinality(pending) < MaxPending
                /\ pending' = pending \cup
                       {Request("summarize", transcript_id, "", model, r.id)}
                /\ last' = Response("summarize", transcript_id, "suspended", 1)

handle_summary_generation_finish(req, raised, text) ==
    /\ req \in pending
    /\ req.op = "summarize"
    /\ pending' = pending \ {req}
    /\ UNCHANGED <<videos, audios, transcripts, templates, files>>
    /\ IF raised
       THEN /\ last' = Response("summarize", req.parent, "SummarizationFailed", 1)
            /\ UNCHANGED <<summaries, now>>
       ELSE IF EmptyText(text)
       THEN /\ last' = Response("summarize", req.parent, "EmptyResult", 1)
            /\ UNCHANGED <<summaries, now>>
       ELSE IF ForeignKeyFails(req)
       THEN \* FOREIGN KEY(transcript_id) or (prompt_template_id) fails at the INSERT
            /\ last' = Response("summarize", req.parent, "IntegrityError", 1)
            /\ UNCHANGED <<summaries, now>>
       ELSE LET id == NextId(summaries)
            IN  /\ id <= MaxSummaries
                /\ now < MaxTime
                /\ now' = now + 1
                /\ summaries' = Insert(summaries, id,
                       [transcript_id |-> req.parent, prompt_template_id |-> req.tpl,
                        summary_text |-> text, ai_model_name |-> req.model,
                        updated_at |-> now'])
                /\ last' = Response("summarize", req.parent, "ok", 1)

----------------------------------------------------------------------------
(* Template administration: prompt_template_service *)

NameInUse(name) == get_prompt_template_by_name(name) # Null

create_template(name, content, is_active) ==
    /\ UNCHANGED <<videos, audios, transcripts, summaries, pending, files>>
    /\ IF NameInUse(name)
       THEN /\ last' = Response("create_template", 0, "Conflict", 0)
            /\ UNCHANGED <<templates, now>>
       ELSE LET id == NextId(templates)
            IN  /\ id <= MaxTemplates
                /\ now < MaxTime
                /\ now' = now + 1
                /\ templates' = Insert(templates, id,
                       [name |-> name, content |-> content, is_active |-> is_active,
                        created_at |-> now'])
                /\ last' = Response("create_template", id, "ok", 0)

\* PromptTemplateUpdate with exclude_unset: a field is set or left out
Unset == "<unset>"
UnsetContent == {Unset}

update_template(template_id, name, is_active, content) ==
    /\ UNCHANGED <<videos, audios, transcripts, summaries, now, pending, files>>
    /\ IF template_id \notin DOMAIN templates
       THEN /\ last' = Response("update_template", template_id, "NotFound", 0)
            /\ UNCHANGED templates
       ELSE IF TruthyStr(name) /\ name # templates[template_id].name /\ NameInUse(name)
       THEN /\ last' = Response("update_template", template_id, "Conflict", 0)
            /\ UNCHANGED templates
       ELSE LET old == templates[template_id]
                new == [old EXCEPT
                          !.name = IF name = NoneName THEN @ ELSE name,
                          !.is_active = IF is_active = Unset THEN @ ELSE is_active = "true",
                          !.content = IF content = UnsetContent THEN @ ELSE content]
            IN  IF \E t \in DOMAIN templates \ {template_id} : templates[t].name = new.name
                THEN \* UNIQUE(name) fails at the UPDATE
                     /\ last' = Response("update_template", template_id, "IntegrityError", 0)
                     /\ UNCHANGED templates
                ELSE /\ templates' = [templates EXCEPT ![template_id] = new]
                     /\ last' = Response("update_template", template_id, "ok", 0)

toggle_template_active(template_id, is_active) ==
    /\ UNCHANGED <<videos, audios, transcripts, summaries, now, pending, files>>
    /\ IF template_id \notin DOMAIN templates
       THEN /\ last' = Response("toggle_template", template_id, "NotFound", 0)
            /\ UNCHANGED templates
       ELSE /\ templates' = [templates EXCEPT ![template_id].is_active = is_active]
            /\ last' = Response("toggle_template", template_id, "ok", 0)

\* PromptTemplate.summaries has no delete cascade: the unit of work loads the
\* referencing Summary rows and UPDATEs their prompt_template_id to NULL,
\* which is an UPDATE of the row, so updated_at (onupdate=utc_now) is stamped.
SummariesUsing(template_id) ==
    {s \in DOMAIN summaries : summaries[s].prompt_template_id = template_id}

\* the template row deleted with the references left as they were
NullTemplateRef_Dangling(template_id, stamp) == summaries

NullTemplateRef(template_id, stamp) ==
    [s \in DOMAIN summaries |->
        IF s \in SummariesUsing(template_id)
        THEN [summaries[s] EXCEPT !.prompt_template_id = Null, !.updated_at = stamp]
        ELSE summaries[s]]

delete_template(template_id) ==
    /\ UNCHANGED <<videos, audios, transcripts, pending, files>>
    /\ IF template_id \notin DOMAIN templates
       THEN /\ last' = Response("delete_template", template_id, "NotFound", 0)
            /\ UNCHANGED <<templates, summaries, now>>
       ELSE /\ templates' = Remove(templates, {template_id})
            /\ last' = Effect("delete_template", template_id, "ok", 0,
                               1 + Cardinality(SummariesUsing(template_id)))
            /\ IF SummariesUsing(template_id) = {}
               THEN UNCHANGED <<summaries, now>>
               ELSE /\ now < MaxTime
                    /\ now' = now + 1
                    /\ summaries' = NullTemplateRef(template_id, now')

----------------------------------------------------------------------------
(* Deletes with their cascades (cascade="all, delete-orphan", ondelete=CASCADE) *)

\* Video.audios declared without a delete cascade
CascadeAudios_NoCascade(vs) == {}

CascadeAudios(vs) == AudiosOf(vs)

\* a cascade that reaches the transcripts of every audio
CascadeTranscripts_EveryAudio(as) == DOMAIN transcripts

\* Audio.transcripts declared without a delete cascade
CascadeTranscripts_NoCascade(as) == {}

CascadeTranscripts(as) == TranscriptsOf(as)

\* Transcript.summaries declared without a delete cascade
CascadeSummaries_NoCascade(ts) == {}

CascadeSummaries(ts) == SummariesOf(ts)

\* video_service.delete_video: the row with its cascade, then the file
delete_video(video_id) ==
    /\ UNCHANGED <<templates, now, pending>>
    /\ IF video_id \in DOMAIN videos
       THEN \E unlinked \in BOOLEAN :
               files' = delete_file_safe(videos[video_id].filepath, unlinked)
       ELSE UNCHANGED files
    /\ IF video_id \notin DOMAIN videos
       THEN /\ last' = Response("delete_video", video_id, "NotFound", 0)
            /\ UNCHANGED <<videos, audios, transcripts, summaries>>
       ELSE LET as == CascadeAudios({video_id})
                ts == CascadeTranscripts(as)
                ss == CascadeSummaries(ts)
            IN  /\ videos' = Remove(videos, {video_id})
                /\ audios' = Remove(audios, as)
                /\ transcripts' = Remove(transcripts, ts)
                /\ summaries' = Remove(summaries, ss)
                /\ last' = Effect("delete_video", video_id, "ok", 0,
                                  1 + Cardinality(as) + Cardinality(ts) + Cardinality(ss))

\* audio_service.delete_audio: the row with its cascade, then the file
delete_audio(audio_id) ==
    /\ UNCHANGED <<videos, templates, now, pending>>
    /\ IF audio_id \in DOMAIN audios
       THEN \E unlinked \in BOOLEAN :
               files' = delete_file_safe(audios[audio_id].filepath, unlinked)
       ELSE UNCHANGED files
    /\ IF audio_id \notin DOMAIN audios
       THEN /\ last' = Response("delete_audio", audio_id, "NotFound", 0)
            /\ UNCHANGED <<audios, transcripts, summaries>>
       ELSE LET ts == CascadeTranscripts({audio_id})
                ss == CascadeSummaries(ts)
            IN  /\ audios' = Remove(audios, {audio_id})
                /\ transcripts' = Remove(transcripts, ts)
                /\ summaries' = Remove(summaries, ss)
                /\ last' = Effect("delete_audio", audio_id, "ok", 0,
                                   1 + Cardinality(ts) + Cardinality(ss))

\* transcript_repository.delete_transcript (no service wrapper)
delete_transcript(transcript_id) ==
    /\ UNCHANGED <<videos, audios, templates, now, pending, files>>
    /\ IF transcript_id \notin DOMAIN transcripts
       THEN /\ last' = Response("delete_transcript", transcript_id, "NotFound", 0)
            /\ UNCHANGED <<transcripts, summaries>>
       ELSE LET ss == CascadeSummaries({transcript_id})
            IN  /\ transcripts' = Remove(transcripts, {transcript_id})
                /\ summaries' = Remove(summaries, ss)
                /\ last' = Effect("delete_transcript", transcript_id, "ok", 0,
                                   1 + Cardinality(ss))

delete_summary(summary_id) ==
    /\ UNCHANGED <<videos, audios, transcripts, templates, now, pending, files>>
    /\ IF summary_id \notin DOMAIN summaries
       THEN /\ last' = Response("delete_summary", summary_id, "NotFound", 0)
            /\ UNCHANGED summaries
       ELSE /\ summaries' = Remove(summaries, {summary_id})
            /\ last' = Effect("delete_summary", summary_id, "ok", 0, 1)

----------------------------------------------------------------------------
(* Deletes of concurrent requests.  The delete routes are plain functions,  *)
(* which the server runs on worker threads, each request with a Session of  *)
(* its own.  The service reads the row; the repository reads it again and   *)
(* deletes it; then the service deletes the file and answers.  A request    *)
(* is pending from the first read until it answers.                         *)

Callers == 1..MaxCallers

\* the request keeps the path of the row the service has read, how far it
\* is, and the number of rows its DELETE statements removed
DeleteRequest(op, parent, caller) ==
    [op |-> op, parent |-> parent, language |-> "", model |-> NoneModel,
     tpl |-> Null, caller |-> caller, stage |-> "checked", n |-> 0,
     path |-> IF op = "delete_audio" THEN audios[parent].filepath
              ELSE videos[parent].filepath]

Idle(caller) == \A req \in pending : req.caller # caller

\* audio_service.delete_audio up to the call of the repository
delete_audio_check(caller, audio_id) ==
    /\ Idle(caller)
    /\ UNCHANGED <<videos, audios, transcripts, summaries, templates, now, files>>
    /\ IF audio_id \notin DOMAIN audios
       THEN /\ last' = Response("delete_audio", audio_id, "NotFound", 0)
            /\ UNCHANGED pending
       ELSE /\ pending' = pending \cup {DeleteRequest("delete_audio", audio_id, caller)}
            /\ last' = Response("delete_audio", audio_id, "checked", 0)

\* audio_repository.delete_audio: False when its own read finds no row
delete_audio_commit(req) ==
    /\ req \in pending
    /\ req.op = "delete_audio"
    /\ req.stage = "checked"
    /\ UNCHANGED <<videos, templates, now, files>>
    /\ IF req.parent \notin DOMAIN audios
       THEN /\ pending' = (pending \ {req}) \cup {[req EXCEPT !.stage = "deleted"]}
            /\ last' = Effect("delete_audio", req.parent, "gone", 0, 0)
            /\ UNCHANGED <<audios, transcripts, summaries>>
       ELSE LET ts == CascadeTranscripts({req.parent})
                ss == CascadeSummaries(ts)
                n == 1 + Cardinality(ts) + Cardinality(ss)
            IN  /\ pending' = (pending \ {req})
                                 \cup {[req EXCEPT !.stage = "deleted", !.n = n]}
                /\ audios' = Remove(audios, {req.parent})
                /\ transcripts' = Remove(transcripts, ts)
                /\ summaries' = Remove(summaries, ss)
                /\ last' = Effect("delete_audio", req.parent, "deleted", 0, n)

\* the files of the Audio rows of the cascade deleted with the Video's
delete_file_of_WithCascade(req, unlinked) ==
    IF files.tracked /\ unlinked
    THEN [files EXCEPT !.paths = @ \ {req.path, AudioPath(req.path)}]
    ELSE files

\* delete_file_safe(Path(audio.filepath)) / (Path(video.filepath)): the path
\* is the one of the row read at the start
delete_file_of(req, unlinked) == delete_file_safe(req.path, unlinked)

\* a file that could not be deleted reported to the caller
DeleteResult_Surfaced(unlinked) == IF unlinked THEN "ok" ELSE "FileError"

\* "except Exception: pass" and "return True": the outcome of the file
\* deletion does not reach the answer
DeleteResult(unlinked) == "ok"

\* the rest of audio_service.delete_audio: the result of the repository is
\* not looked at, the file is deleted and the service returns True
delete_audio_file(req) ==
    /\ req \in pending
    /\ req.op = "delete_audio"
    /\ req.stage = "deleted"
    /\ pending' = pending \ {req}
    /\ UNCHANGED <<videos, audios, transcripts, summaries, templates, now>>
    /\ \E unlinked \in BOOLEAN :
          /\ files' = delete_file_of(req, unlinked)
          /\ last' = Effect("delete_audio", req.parent, DeleteResult(unlinked), 0, req.n)

\* video_service.delete_video up to the call of the repository
delete_video_check(caller, video_id) ==
    /\ Idle(caller)
    /\ UNCHANGED <<videos, audios, transcripts, summaries, templates, now, files>>
    /\ IF video_id \notin DOMAIN videos
       THEN /\ last' = Response("delete_video", video_id, "NotFound", 0)
            /\ UNCHANGED pending
       ELSE /\ pending' = pending \cup {DeleteRequest("delete_video", video_id, caller)}
            /\ last' = Response("delete_video", video_id, "checked", 0)

\* video_repository.delete_video
delete_video_commit(req) ==
    /\ req \in pending
    /\ req.op = "delete_video"
    /\ req.stage = "checked"
    /\ UNCHANGED <<templates, now, files>>
    /\ IF req.parent \notin DOMAIN videos
       THEN /\ pending' = (pending \ {req}) \cup {[req EXCEPT !.stage = "deleted"]}
            /\ last' = Effect("delete_video", req.parent, "gone", 0, 0)
            /\ UNCHANGED <<videos, audios, transcripts, summaries>>
       ELSE LET as == CascadeAudios({req.parent})
                ts == CascadeTranscripts(as)
                ss == CascadeSummaries(ts)
                n == 1 + Cardinality(as) + Cardinality(ts) + Cardinality(ss)
            IN  /\ pending' = (pending \ {req})
                                 \cup {[req EXCEPT !.stage = "deleted", !.n = n]}
                /\ videos' = Remove(videos, {req.parent})
                /\ audios' = Remove(audios, as)
                /\ transcripts' = Remove(transcripts, ts)
                /\ summaries' = Remove(summaries, ss)
                /\ last' = Effect("delete_video", req.parent, "deleted", 0, n)

\* the rest of video_service.delete_video
delete_video_file(req) ==
    /\ req \in pending
    /\ req.op = "delete_video"
    /\ req.stage = "deleted"
    /\ pending' = pending \ {req}
    /\ UNCHANGED <<videos, audios, transcripts, summaries, templates, now>>
    /\ \E unlinked \in BOOLEAN :
          /\ files' = delete_file_of(req, unlinked)
          /\ last' = Effect("delete_video", req.parent, DeleteResult(unlinked), 0, req.n)

----------------------------------------------------------------------------
(* Inputs of the requests *)

VideoIds == 1..MaxVideos
AudioIds == 1..MaxAudios
TranscriptIds == 1..MaxTranscripts
SummaryIds == 1..MaxSummaries
TemplateIds == 1..MaxTemplates
TemplateIdInputs == {NoneId, 0} \cup TemplateIds
TemplateNameInputs == {NoneName} \cup Names
ActiveUpdates == {Unset, "true", "false"}
ContentUpdates == {UnsetContent} \cup Contents

UploadVideo == \E stem \in Stems, ext \in Exts, validFile, metadataOk \in BOOLEAN :
    handle_video_upload(stem, ext, validFile, metadataOk)
DownloadVideo == \E url \in Urls, o \in DownloadOutcomes : handle_video_download(url, o)
UpdateVideoStatus == \E v \in VideoIds, st \in StatusInputs : update_video_status(v, st)
ExtractAudio == \E v \in VideoIds, o \in ExtractOutcomes : handle_audio_extraction(v, o)
UpdateAudioStatus == \E a \in AudioIds, st \in StatusInputs : update_audio_status(a, st)
TranscribeBegin == \E a \in AudioIds, l \in Languages : handle_transcription_begin(a, l)
TranscribeFinish == \E req \in pending, raised \in BOOLEAN, text \in {""} \cup Texts :
    handle_transcription_finish(req, raised, text)
SummarizeBegin == \E t \in TranscriptIds, m \in ModelInputs,
                     n \in TemplateNameInputs, i \in TemplateIdInputs :
    handle_summary_generation_begin(t, m, n, i)
SummarizeFinish == \E req \in pending, raised \in BOOLEAN, text \in {""} \cup SummaryTexts :
    handle_summary_generation_finish(req, raised, text)
CreateTemplate == \E n \in Names, c \in Contents, b \in BOOLEAN : create_template(n, c, b)
UpdateTemplate == \E i \in TemplateIds, n \in TemplateNameInputs,
                     b \in ActiveUpdates, c \in ContentUpdates :
    update_template(i, n, b, c)
ToggleTemplate == \E i \in TemplateIds, b \in BOOLEAN : toggle_template_active(i, b)
DeleteTemplate == \E i \in TemplateIds : delete_template(i)
DeleteVideo == \E v \in VideoIds : delete_video(v)
DeleteAudio == \E a \in AudioIds : delete_audio(a)
DeleteTranscript == \E t \in TranscriptIds : delete_transcript(t)
DeleteSummary == \E s \in SummaryIds : delete_summary(s)

Next ==
    \/ UploadVideo
    \/ DownloadVideo
    \/ UpdateVideoStatus
    \/ ExtractAudio
    \/ UpdateAudioStatus
    \/ TranscribeBegin
    \/ TranscribeFinish
    \/ SummarizeBegin
    \/ SummarizeFinish
    \/ CreateTemplate
    \/ UpdateTemplate
    \/ ToggleTemplate
    \/ DeleteTemplate
    \/ DeleteVideo
    \/ DeleteAudio
    \/ DeleteTranscript
    \/ DeleteSummary

Spec == Init /\ [][Next]_vars

----------------------------------------------------------------------------
(* The complete system is too large to enumerate with two rows per table,  *)
(* so the properties are checked on slices of it.  All slices use the same  *)
(* handlers; a slice fixes the inputs its properties do not depend on.     *)

GoodContent == {"transcript"}

\* Slice 1: the pipeline and its deletes, with one kind of template.
SeedTemplate == \E n \in Names \ {""} : create_template(n, GoodContent, TRUE)
StageExtractAudio == \E v \in VideoIds, k \in {"raise", "fail", "ok"} :
    handle_audio_extraction(v, [kind |-> k, duration |-> IF k = "ok" THEN 42 ELSE Null])
StageSummarizeBegin == \E t \in TranscriptIds, n \in TemplateNameInputs, i \in TemplateIdInputs :
    handle_summary_generation_begin(t, NoneModel, n, i)

NextPipeline ==
    \/ UploadVideo
    \/ StageExtractAudio
    \/ TranscribeBegin
    \/ TranscribeFinish
    \/ StageSummarizeBegin
    \/ SummarizeFinish
    \/ SeedTemplate
    \/ DeleteVideo
    \/ DeleteAudio
    \/ DeleteTranscript
    \/ DeleteSummary

SpecPipeline == Init /\ [][NextPipeline]_vars

\* Slice 2: ingestion, extraction and the status updates.
NextExtract ==
    \/ UploadVideo
    \/ UpdateVideoStatus
    \/ ExtractAudio
    \/ UpdateAudioStatus
    \/ DeleteVideo
    \/ DeleteAudio

SpecExtract == Init /\ [][NextExtract]_vars

\* Slice 5: the two ways a Video comes in, extraction and the deletes.
NextIngest ==
    \/ UploadVideo
    \/ DownloadVideo
    \/ StageExtractAudio
    \/ DeleteVideo
    \/ DeleteAudio

SpecIngest == Init /\ [][NextIngest]_vars

\* Slice 6: deletes of concurrent requests over the chain of slice 3 and its
\* files, with the upload of a second video and extractions.
UploadSecond == \E metadataOk \in BOOLEAN : handle_video_upload("b", "mp4", TRUE, metadataOk)
DeleteAudioCheck == \E c \in Callers, a \in AudioIds : delete_audio_check(c, a)
DeleteAudioCommit == \E req \in pending : delete_audio_commit(req)
DeleteVideoCheck == \E c \in Callers, v \in VideoIds : delete_video_check(c, v)
DeleteVideoCommit == \E req \in pending : delete_video_commit(req)
DeleteAudioFile == \E req \in pending : delete_audio_file(req)
DeleteVideoFile == \E req \in pending : delete_video_file(req)

NextDeletes ==
    \/ DeleteAudioCheck
    \/ DeleteAudioCommit
    \/ DeleteAudioFile
    \/ DeleteVideoCheck
    \/ DeleteVideoCommit
    \/ DeleteVideoFile
    \/ UploadSecond
    \/ StageExtractAudio

\* Slice 3: template administration and summarization over a fixed chain
\* video 1 -> audio 1 -> transcript 1 (the state after one upload, one
\* extraction and one transcription).
InitChain ==
    /\ videos = Insert(<<>>, 1, [filepath |-> [stem |-> "a", ext |-> "mp4"],
                                 source_type |-> "upload", source_url |-> NoneName,
                                 status |-> "uploaded"])
    /\ audios = Insert(<<>>, 1, [video_id |-> 1, filepath |-> [stem |-> "a", ext |-> "mp3"],
                                 duration |-> 42, status |-> "extracted"])
    /\ transcripts = Insert(<<>>, 1, [audio_id |-> 1, text |-> "hello", language |-> "ko",
                                      model |-> default_whisper_model])
    /\ summaries = <<>>
    /\ templates = <<>>
    /\ files = Untracked
    /\ now = 0
    /\ pending = {}
    /\ last = Response("transcribe", 1, "ok", 1)

AdminCreateTemplate == \E n \in Names, b \in BOOLEAN : create_template(n, GoodContent, b)
AdminUpdateTemplate == \E i \in TemplateIds, n \in TemplateNameInputs, b \in ActiveUpdates :
    update_template(i, n, b, UnsetContent)

NextTemplates ==
    \/ AdminCreateTemplate
    \/ AdminUpdateTemplate
    \/ ToggleTemplate
    \/ DeleteTemplate
    \/ StageSummarizeBegin
    \/ SummarizeFinish
    \/ DeleteSummary
    \/ DeleteTranscript

SpecTemplates == InitChain /\ [][NextTemplates]_vars

\* the chain with its two files in a tracked storage
InitChainStored ==
    /\ videos = Insert(<<>>, 1, [filepath |-> [stem |-> "a", ext |-> "mp4"],
                                 source_type |-> "upload", source_url |-> NoneName,
                                 status |-> "uploaded"])
    /\ audios = Insert(<<>>, 1, [video_id |-> 1, filepath |-> [stem |-> "a", ext |-> "mp3"],
                                 duration |-> 42, status |-> "extracted"])
    /\ transcripts = Insert(<<>>, 1, [audio_id |-> 1, text |-> "hello", language |-> "ko",
                                      model |-> default_whisper_model])
    /\ summaries = <<>>
    /\ templates = <<>>
    /\ files = [tracked |-> TRUE,
                paths |-> {[stem |-> "a", ext |-> "mp4"], [stem |-> "a", ext |-> "mp3"]}]
    /\ now = 0
    /\ pending = {}
    /\ last = Response("transcribe", 1, "ok", 1)

SpecDeletes == InitChainStored /\ [][NextDeletes]_vars

\* Slice 4: summarization over the same chain with every template body and
\* every model input, the template given by id or left to the default rule.
ModelSummarizeBegin == \E t \in TranscriptIds, m \in ModelInputs, i \in {NoneId} \cup TemplateIds :
    handle_summary_generation_begin(t, m, NoneName, i)

NextSummarize ==
    \/ CreateTemplate
    \/ ModelSummarizeBegin
    \/ SummarizeFinish
    \/ DeleteSummary
    \/ DeleteTemplate

SpecSummarize == InitChain /\ [][NextSummarize]_vars

----------------------------------------------------------------------------
(* Listing: get_video_list.  The listings of the other entities have the   *)
(* same two branches with the parent id as the filter.                     *)

MaxPage == 3

\* limit and offset are plain int query parameters without a range
PageNumbers == -1..MaxPage
StatusFilters == {NoneName, "", "uploaded", "processing"}

\* ORDER BY created_at DESC.  created_at never decreases with the id
\* (NextId), so the newest row is the one with the largest id; rows stamped
\* in the same second come out in one fixed order of the table.
RECURSIVE Descending(_)
Descending(S) == IF S = {} THEN <<>> ELSE <<Max(S)>> \o Descending(S \ {Max(S)})

\* a Python slice index brought into 0..n
SliceIndex(i, n) == IF i < 0 THEN (IF i + n < 0 THEN 0 ELSE i + n)
                    ELSE IF i > n THEN n ELSE i

\* Python s[i:j]
PySlice(s, i, j) ==
    LET lo == SliceIndex(i, Len(s))
        hi == SliceIndex(j, Len(s))
    IN  IF lo < hi THEN SubSeq(s, lo + 1, hi) ELSE <<>>

\* OFFSET applied after LIMIT
SqlPage_LimitFirst(s, skip, limit) ==
    LET head == IF limit < 0 \/ limit >= Len(s) THEN s ELSE SubSeq(s, 1, limit)
        lo == IF skip < 0 THEN 0 ELSE skip
    IN  IF lo >= Len(head) THEN <<>> ELSE SubSeq(head, lo + 1, Len(head))

\* SQLite "LIMIT limit OFFSET skip": a negative OFFSET is 0, a negative
\* LIMIT is no upper bound
SqlPage(s, skip, limit) ==
    LET lo == IF skip < 0 THEN 0 ELSE skip
        rest == IF lo >= Len(s) THEN <<>> ELSE SubSeq(s, lo + 1, Len(s))
    IN  IF limit < 0 \/ limit >= Len(rest) THEN rest ELSE SubSeq(rest, 1, limit)

get_videos_by_status(status) ==
    Descending({v \in DOMAIN videos : videos[v].status = status})

count_videos == Cardinality(DOMAIN videos)

get_videos_paginated(skip, limit) == SqlPage(Descending(DOMAIN videos), skip, limit)

\* video_service.get_video_list: "if status:" takes the filter branch
get_video_list(status, limit, offset) ==
    IF TruthyStr(status)
    THEN [total |-> Len(get_videos_by_status(status)),
          items |-> PySlice(get_videos_by_status(status), offset, offset + limit)]
    ELSE [total |-> count_videos,
          items |-> get_videos_paginated(offset, limit)]

\* GET /api/videos: the answer carries total and the ids of the items
list_videos(status, limit, offset) ==
    /\ UNCHANGED <<videos, audios, transcripts, summaries, templates, now, pending, files>>
    /\ last' = [op |-> "list_videos", arg |-> 0, result |-> "ok", gw |-> 0, n |-> 0,
                status |-> status, limit |-> limit, offset |-> offset,
                total |-> get_video_list(status, limit, offset).total,
                items |-> get_video_list(status, limit, offset).items]

ListVideos == \E st \in StatusFilters, l \in PageNumbers, o \in PageNumbers :
    list_videos(st, l, o)

\* Slice 7: listing over the videos that uploads, status updates and deletes
\* leave.
NextListing ==
    \/ UploadVideo
    \/ UpdateVideoStatus
    \/ DeleteVideo
    \/ ListVideos

SpecListing == Init /\ [][NextListing]_vars

\* Slice 8: every stage after ingestion, the status updates, templates and
\* every delete over the chain of slice 3, the template given by id or left
\* to the default rule.
IdSummarizeBegin == \E t \in TranscriptIds, i \in {NoneId} \cup TemplateIds :
    handle_summary_generation_begin(t, NoneModel, NoneName, i)

NextIntegrity ==
    \/ UpdateVideoStatus
    \/ StageExtractAudio
    \/ UpdateAudioStatus
    \/ TranscribeBegin
    \/ TranscribeFinish
    \/ IdSummarizeBegin
    \/ SummarizeFinish
    \/ SeedTemplate
    \/ ToggleTemplate
    \/ DeleteTemplate
    \/ DeleteVideo
    \/ DeleteAudio
    \/ DeleteTranscript
    \/ DeleteSummary

SpecIntegrity == InitChain /\ [][NextIntegrity]_vars

\* Slice 9: the four stage operations and the status updates over the chain
\* of slice 3, the download asked for with a valid URL.
StageDownload == \E o \in DownloadOutcomes : handle_video_download("https://h/v", o)

NextStages ==
    \/ StageDownload
    \/ UpdateVideoStatus
    \/ StageExtractAudio
    \/ UpdateAudioStatus
    \/ TranscribeBegin
    \/ TranscribeFinish
    \/ IdSummarizeBegin
    \/ SummarizeFinish
    \/ SeedTemplate

SpecStages == InitChain /\ [][NextStages]_vars

\* Slice 10: status updates with every status value over the videos and
\* audios that ingestion, extraction and the deletes leave.
AdminStatusInputs == VIDEO_VALID_STATUSES \cup AUDIO_VALID_STATUSES \cup {"", "bogus"}
AdminVideoStatus == \E v \in VideoIds, st \in AdminStatusInputs : update_video_status(v, st)
AdminAudioStatus == \E a \in AudioIds, st \in AdminStatusInputs : update_audio_status(a, st)

NextStatus ==
    \/ UploadVideo
    \/ StageDownload
    \/ StageExtractAudio
    \/ AdminVideoStatus
    \/ AdminAudioStatus
    \/ DeleteVideo
    \/ DeleteAudio

SpecStatus == Init /\ [][NextStatus]_vars

\* Slice 11: a second video beside the chain of slice 3, every stage after
\* ingestion, templates and the five deletes.
NextFrame ==
    \/ UploadSecond
    \/ StageExtractAudio
    \/ TranscribeBegin
    \/ TranscribeFinish
    \/ IdSummarizeBegin
    \/ SummarizeFinish
    \/ SeedTemplate
    \/ DeleteTemplate
    \/ DeleteVideo
    \/ DeleteAudio
    \/ DeleteTranscript
    \/ DeleteSummary

SpecFrame == InitChain /\ [][NextFrame]_vars

----------------------------------------------------------------------------
(* Properties *)

Deleted(op) == last'.op = op /\ last'.result = "ok"

\* C1: after a successful delete_video(v) no Audio of v, no Transcript of an
\* Audio of v and no Summary of such a Transcript remains.
C1_CascadeClosure ==
    [][Deleted("delete_video") =>
        LET v == last'.arg
            as == {a \in DOMAIN audios : audios[a].video_id = v}
            ts == {t \in DOMAIN transcripts : transcripts[t].audio_id \in as}
            ss == {x \in DOMAIN summaries : summaries[x].transcript_id \in ts}
        IN  /\ v \in DOMAIN videos /\ v \notin DOMAIN videos'
            /\ \A a \in DOMAIN audios' : a \notin as /\ audios'[a].video_id # v
            /\ \A t \in DOMAIN transcripts' : t \notin ts /\ transcripts'[t].audio_id \notin as
            /\ \A x \in DOMAIN summaries' : x \notin ss /\ summaries'[x].transcript_id \notin ts
    ]_vars

\* a delete_video that removed the video, its audio, two transcripts and a summary
C1_Witness ==
    /\ last.op = "delete_video" /\ last.result = "ok"
    /\ last.n = 5
    /\ DOMAIN summaries = {}

\* C2: delete_audio removes the audio's Transcripts and their Summaries and
\* keeps the parent Video; delete_transcript removes the transcript's
\* Summaries and keeps the parent Audio.
C2_ChildCascade ==
    [][/\ Deleted("delete_audio") =>
            LET a == last'.arg
                ts == {t \in DOMAIN transcripts : transcripts[t].audio_id = a}
            IN  /\ a \in DOMAIN audios /\ a \notin DOMAIN audios'
                /\ \A t \in DOMAIN transcripts' : transcripts'[t].audio_id # a
                /\ \A x \in DOMAIN summaries' : summaries'[x].transcript_id \notin ts
                /\ audios[a].video_id \in DOMAIN videos'
                /\ videos' = videos
       /\ Deleted("delete_transcript") =>
            LET t == last'.arg
            IN  /\ t \in DOMAIN transcripts /\ t \notin DOMAIN transcripts'
                /\ \A x \in DOMAIN summaries' : summaries'[x].transcript_id # t
                /\ transcripts[t].audio_id \in DOMAIN audios'
                /\ audios' = audios /\ videos' = videos
    ]_vars

\* a delete_audio that removed the audio, a transcript and two summaries,
\* with the parent video still there
C2_Witness ==
    /\ last.op = "delete_audio" /\ last.result = "ok"
    /\ last.n = 4
    /\ DOMAIN transcripts = {}
    /\ DOMAIN videos # {}

\* C3 as stated: a successful delete_template(p) keeps every Summary, nulls
\* the template reference of those that referenced p and changes no other
\* field of any Summary.
C3_NullOnDeleteAllFieldsKept ==
    [][Deleted("delete_template") =>
        /\ DOMAIN summaries' = DOMAIN summaries
        /\ \A x \in DOMAIN summaries :
              summaries'[x] =
                  IF summaries[x].prompt_template_id = last'.arg
                  THEN [summaries[x] EXCEPT !.prompt_template_id = Null]
                  ELSE summaries[x]
    ]_vars

\* C3 amended: as above, except that updated_at of the Summaries that
\* referenced p is set to the time of the delete (it does not go back);
\* transcript_id, summary_text and ai_model_name are unchanged, and the
\* Summaries that did not reference p are unchanged in every field.
C3_NullOnDelete ==
    [][Deleted("delete_template") =>
        /\ last'.arg \in DOMAIN templates /\ last'.arg \notin DOMAIN templates'
        /\ DOMAIN summaries' = DOMAIN summaries
        /\ \A x \in DOMAIN summaries :
              IF summaries[x].prompt_template_id = last'.arg
              THEN /\ summaries'[x].prompt_template_id = Null
                   /\ summaries'[x].transcript_id = summaries[x].transcript_id
                   /\ summaries'[x].summary_text = summaries[x].summary_text
                   /\ summaries'[x].ai_model_name = summaries[x].ai_model_name
                   /\ summaries'[x].updated_at > summaries[x].updated_at
                   /\ summaries'[x].updated_at = now'
              ELSE summaries'[x] = summaries[x]
    ]_vars

\* a delete_template that nulled the reference of two Summaries
C3_Witness ==
    /\ last.op = "delete_template" /\ last.result = "ok"
    /\ last.n = 3
    /\ Cardinality(DOMAIN summaries) = 2
    /\ \A x \in DOMAIN summaries : summaries[x].prompt_template_id = Null

\* C4: when the extraction gateway raises or returns the failure flag for an
\* existing Video, the call fails with ExtractionFailed, the Audio rows are
\* unchanged and the Video (its status included) is unchanged.
C4_ExtractionFailureAtomic ==
    [][\A v \in DOMAIN videos : \A o \in ExtractOutcomes :
          (o.kind \in {"raise", "fail"} /\ handle_audio_extraction(v, o)) =>
              /\ last'.op = "extract_audio" /\ last'.result = "ExtractionFailed"
              /\ audios' = audios
              /\ v \in DOMAIN videos' /\ videos'[v].status = videos[v].status
    ]_vars

\* a failed extraction for a Video in status processing, next to the Audio
\* of another Video
C4_Witness ==
    /\ last.op = "extract_audio" /\ last.result = "ExtractionFailed" /\ last.gw = 1
    /\ last.arg \in DOMAIN videos
    /\ videos[last.arg].status = "processing"
    /\ \A a \in DOMAIN audios : audios[a].video_id # last.arg
    /\ DOMAIN audios # {}

\* C5: an empty string from the transcription or the summarization gateway
\* fails the call with EmptyResult and creates no Transcript / Summary row.
C5_EmptyResultRejected ==
    [][\A req \in pending :
          /\ handle_transcription_finish(req, FALSE, "") =>
                /\ last'.op = "transcribe" /\ last'.result = "EmptyResult"
                /\ transcripts' = transcripts
          /\ handle_summary_generation_finish(req, FALSE, "") =>
                /\ last'.op = "summarize" /\ last'.result = "EmptyResult"
                /\ summaries' = summaries
    ]_vars

\* a summarize call on an existing transcript that got an empty completion
C5_Witness ==
    /\ last.op = "summarize" /\ last.result = "EmptyResult" /\ last.gw = 1
    /\ last.arg \in DOMAIN transcripts
    /\ pending = {}

\* C6: extract_audio, transcribe_audio and summarize_transcript on a parent
\* that does not exist fail with NotFound, make no gateway call and create
\* no row, for summarize_transcript whatever template id and name are given.
C6_MissingParent ==
    [][/\ (last'.op = "extract_audio" /\ last'.arg \notin DOMAIN videos) =>
            /\ last'.result = "NotFound" /\ last'.gw = 0
            /\ audios' = audios /\ pending' = pending
       \* a step that completes no suspended request is the first half of a call
       /\ (last'.op = "transcribe" /\ pending \subseteq pending'
              /\ last'.arg \notin DOMAIN audios) =>
            /\ last'.result = "NotFound" /\ last'.gw = 0
            /\ transcripts' = transcripts /\ pending' = pending
       /\ (last'.op = "summarize" /\ pending \subseteq pending'
              /\ last'.arg \notin DOMAIN transcripts) =>
            /\ last'.result = "NotFound" /\ last'.gw = 0
            /\ summaries' = summaries /\ pending' = pending
    ]_vars

\* summarize on a missing transcript while no template exists at all, so
\* that resolving first would have answered TemplateError
C6_Witness ==
    /\ last.op = "summarize" /\ last.result = "NotFound" /\ last.gw = 0
    /\ last.arg \notin DOMAIN transcripts
    /\ DOMAIN templates = {}
    /\ DOMAIN audios # {}

\* C7: when template resolution fails in summarize_transcript on an existing
\* transcript, the call fails with TemplateError, the Summarization Gateway
\* is not invoked and no Summary row is created.
C7_TemplateErrorShortCircuits ==
    [][\A t \in DOMAIN transcripts :
       \A n \in TemplateNameInputs : \A i \in TemplateIdInputs :
          (/\ get_prompt_template_content(n, i).kind # "ok"
           /\ handle_summary_generation_begin(t, NoneModel, n, i)) =>
              /\ last'.op = "summarize" /\ last'.result = "TemplateError"
              /\ last'.gw = 0
              /\ pending' = pending
              /\ summaries' = summaries
    ]_vars

\* a TemplateError on an existing transcript while an active template
\* exists: the template asked for was missing or inactive
C7_Witness ==
    /\ last.op = "summarize" /\ last.result = "TemplateError" /\ last.gw = 0
    /\ last.arg \in DOMAIN transcripts
    /\ \E p \in DOMAIN templates : templates[p].is_active
    /\ \E p \in DOMAIN templates : ~templates[p].is_active
    /\ pending = {}

\* C8: with a template id and a template name both supplied, resolution uses
\* the id alone: the template with that id is the one resolved, and when no
\* template has that id the result is NotFound whatever the name matches.
C8_IdPrecedence ==
    \A i \in TemplateIdInputs \ {NoneId} : \A n \in TemplateNameInputs \ {NoneName} :
        LET r == get_prompt_template_content(n, i)
        IN  IF i \in DOMAIN templates
            THEN r.kind = (IF templates[i].is_active THEN "ok" ELSE "Inactive")
                 /\ (r.kind = "ok" => r.id = i)
            ELSE r.kind = "NotFound"

\* C9: resolving by explicit id or by explicit name fails whenever the
\* template's active flag is false and yields that template whenever the
\* flag is true, in every state reached by creates, updates and toggles.
C9_InactiveRejected ==
    \A p \in DOMAIN templates :
        LET byId == get_prompt_template_content(NoneName, p)
            byName == get_prompt_template_content(templates[p].name, NoneId)
        IN  IF templates[p].is_active
            THEN byId.kind = "ok" /\ byId.id = p /\ byName.kind = "ok" /\ byName.id = p
            ELSE byId.kind = "Inactive" /\ byName.kind # "ok"

\* C10: with neither id nor name, resolution yields the active template
\* with the latest creation time, and NotFound when no template is active.
C10_DefaultIsNewestActive ==
    LET r == get_prompt_template_content(NoneName, NoneId)
        act == {p \in DOMAIN templates : templates[p].is_active}
    IN  IF act = {}
        THEN r.kind = "NotFound"
        ELSE /\ r.kind = "ok"
             /\ r.id \in act
             /\ \A q \in act : templates[q].created_at <= templates[r.id].created_at

\* the newest template is inactive and an older one is active: the default
\* is the older one
C10_Witness ==
    \E p, q \in DOMAIN templates :
        /\ templates[p].is_active /\ ~templates[q].is_active
        /\ templates[q].created_at > templates[p].created_at
        /\ get_prompt_template_content(NoneName, NoneId).id = p

\* C11: a successful summarize_transcript adds exactly one Summary, whose
\* parent is the given transcript and whose prompt_template_id is the id the
\* resolver returned for the call, whether it was selected by id, by name or
\* by the default rule, and whatever happened to the template since.
C11_ResolvedTemplateRecorded ==
    [][/\ \A t \in DOMAIN transcripts :
          \A n \in TemplateNameInputs : \A i \in TemplateIdInputs :
             (/\ last'.result = "suspended"
              /\ handle_summary_generation_begin(t, NoneModel, n, i)) =>
                 \E req \in pending' :
                    /\ pending' = pending \cup {req}
                    /\ req.op = "summarize" /\ req.parent = t
                    /\ get_prompt_template_content(n, i).kind = "ok"
                    /\ req.tpl = get_prompt_template_content(n, i).id
       /\ (last'.op = "summarize" /\ last'.result = "ok") =>
             \E req \in pending \ pending' : \E s \in DOMAIN summaries' \ DOMAIN summaries :
                /\ DOMAIN summaries' = DOMAIN summaries \cup {s}
                /\ \A x \in DOMAIN summaries : summaries'[x] = summaries[x]
                /\ summaries'[s].transcript_id = req.parent
                /\ req.parent = last'.arg
                /\ summaries'[s].prompt_template_id = req.tpl
                /\ req.tpl \in DOMAIN templates
    ]_vars

\* two Summaries of one transcript made with two different templates, the
\* later one with a template that is not the default
C11_Witness ==
    /\ last.op = "summarize" /\ last.result = "ok"
    /\ \E x, y \in DOMAIN summaries :
          /\ x < y
          /\ summaries[x].transcript_id = summaries[y].transcript_id
          /\ summaries[x].prompt_template_id \in DOMAIN templates
          /\ summaries[y].prompt_template_id \in DOMAIN templates
          /\ summaries[x].prompt_template_id # summaries[y].prompt_template_id
          /\ get_prompt_template_content(NoneName, NoneId).id # summaries[y].prompt_template_id

\* C12: summarize_transcript with a resolved template body that lacks the
\* {transcript} field or has another field fails with the formatting error,
\* makes no gateway call and creates no Summary.
C12_MalformedBodyRejected ==
    [][\A t \in DOMAIN transcripts : \A m \in ModelInputs :
       \A n \in TemplateNameInputs : \A i \in TemplateIdInputs :
          LET r == get_prompt_template_content(n, i)
          IN  (/\ r.kind = "ok"
               /\ templates[r.id].content # {"transcript"}
               /\ last'.op = "summarize"
               /\ handle_summary_generation_begin(t, m, n, i)) =>
                  /\ last'.op = "summarize" /\ last'.result = "KeyError"
                  /\ last'.gw = 0
                  /\ pending' = pending
                  /\ summaries' = summaries
    ]_vars

\* C13 as stated: the gateway is called with the model the caller supplied
\* whenever one is supplied, and with the default when none is.
C13_SuppliedModelUsed ==
    [][\A t \in DOMAIN transcripts : \A m \in ModelInputs :
       \A n \in TemplateNameInputs : \A i \in TemplateIdInputs :
          (/\ last'.result = "suspended"
           /\ handle_summary_generation_begin(t, m, n, i)) =>
              \E req \in pending' :
                 /\ pending' = pending \cup {req}
                 /\ req.op = "summarize" /\ req.parent = t
                 /\ req.model = IF m = NoneModel THEN default_llm_model ELSE m
    ]_vars

\* C13 amended: the gateway is called with the supplied model when it is a
\* non-empty string and with the default when it is None or the empty
\* string; the ai_model_name of the created Summary is the model the
\* gateway was called with.
C13_ModelSelection ==
    [][/\ \A t \in DOMAIN transcripts : \A m \in ModelInputs :
          \A n \in TemplateNameInputs : \A i \in TemplateIdInputs :
             (/\ last'.result = "suspended"
              /\ handle_summary_generation_begin(t, m, n, i)) =>
                 \E req \in pending' :
                    /\ pending' = pending \cup {req}
                    /\ req.op = "summarize" /\ req.parent = t
                    /\ req.model = IF m \in {NoneModel, ""} THEN default_llm_model ELSE m
       /\ (last'.op = "summarize" /\ last'.result = "ok") =>
             \E req \in pending \ pending' : \E s \in DOMAIN summaries' \ DOMAIN summaries :
                /\ DOMAIN summaries' = DOMAIN summaries \cup {s}
                /\ summaries'[s].ai_model_name = req.model
    ]_vars

\* one Summary made with the caller's model and one with the default
C13_Witness ==
    /\ last.op = "summarize" /\ last.result = "ok"
    /\ \E x, y \in DOMAIN summaries :
          /\ summaries[x].ai_model_name = "gpt"
          /\ summaries[y].ai_model_name = default_llm_model

\* C14: every extract_audio on an existing Video whose gateway call succeeds
\* adds exactly one Audio row owned by that Video, a repeated extraction of
\* the same Video included.
C14_OneAudioPerExtraction ==
    [][\A v \in DOMAIN videos : \A o \in ExtractOutcomes :
          (/\ o.kind = "ok"
           /\ last'.op = "extract_audio"
           /\ handle_audio_extraction(v, o)) =>
              \E a \in DOMAIN audios' \ DOMAIN audios :
                 /\ DOMAIN audios' = DOMAIN audios \cup {a}
                 /\ audios'[a].video_id = v
    ]_vars

C17_DownloadFailureNoRow ==
    [][(last'.op = "download" /\ last'.gw = 1) =>
          \A url \in {u \in Urls : is_valid_url(u)} :
          \A o \in {d \in DownloadOutcomes : d.kind \in {"raise", "null"}} :
             handle_video_download(url, o) =>
                 /\ last'.result \in {"DownloadFailed", "TypeError"}
                 /\ videos' = videos
    ]_vars

\* the gateway returned None while a Video already existed
C17_Witness ==
    /\ last.op = "download" /\ last.result = "TypeError" /\ last.gw = 1
    /\ DOMAIN videos # {}

\* C18: no two PromptTemplates ever have the same name; a create with a name
\* in use, and an update that sets the name to one used by another template,
\* are answered with Conflict and change no template.
C18_UniqueNamesConflict ==
    [][/\ \A p, q \in DOMAIN templates' :
             p # q => templates'[p].name # templates'[q].name
       /\ last'.op = "create_template" =>
             \A n \in Names : \A b \in BOOLEAN :
                (NameInUse(n) /\ create_template(n, GoodContent, b)) =>
                    last'.result = "Conflict" /\ templates' = templates
       /\ last'.op = "update_template" =>
             \A i \in DOMAIN templates : \A n \in Names : \A b \in ActiveUpdates :
                (/\ \E t \in DOMAIN templates \ {i} : templates[t].name = n
                 /\ update_template(i, n, b, UnsetContent)) =>
                    last'.result = "Conflict" /\ templates' = templates
    ]_vars

\* C19: no two Videos and no two Audios ever share a storage path; an
\* upload, a download or an extraction whose row would take a path in use is
\* answered with Conflict and creates no row.
C19_UniquePathsConflict ==
    [][/\ \A v, w \in DOMAIN videos' : v # w => videos'[v].filepath # videos'[w].filepath
       /\ \A a, b \in DOMAIN audios' : a # b => audios'[a].filepath # audios'[b].filepath
       /\ last'.op = "upload" =>
             \A st \in Stems : \A e \in Exts :
                (/\ VideoPathInUse([stem |-> st, ext |-> e])
                 /\ handle_video_upload(st, e, TRUE, TRUE)) =>
                    last'.result = "Conflict" /\ videos' = videos
       /\ last'.op = "download" =>
             \A url \in {u \in Urls : is_valid_url(u)} : \A st \in Stems :
                (/\ VideoPathInUse([stem |-> st, ext |-> "mp4"])
                 /\ handle_video_download(url, [kind |-> "ok", stem |-> st, hasFilename |-> TRUE])) =>
                    last'.result = "Conflict" /\ videos' = videos
       /\ last'.op = "extract_audio" =>
             \A v \in DOMAIN videos : \A d \in Durations :
                (/\ AudioPathInUse(AudioPath(videos[v].filepath))
                 /\ handle_audio_extraction(v, [kind |-> "ok", duration |-> d])) =>
                    last'.result = "Conflict" /\ audios' = audios
    ]_vars

\* C20: of two concurrent deletes of the same Audio (or the same Video) one
\* reports success and the other not-found: the call that comes to its
\* delete when the other has already removed the row answers NotFound.
C20_SecondDeleteNotFound ==
    [][\A req \in pending :
          /\ (/\ req.op = "delete_audio"
               /\ req.stage = "deleted" /\ req.n = 0
               /\ delete_audio_file(req)) =>
                  last'.op = "delete_audio" /\ last'.result = "NotFound"
          /\ (/\ req.op = "delete_video"
               /\ req.stage = "deleted" /\ req.n = 0
               /\ delete_video_file(req)) =>
                  last'.op = "delete_video" /\ last'.result = "NotFound"
    ]_vars

C22_ReferentialIntegrity ==
    /\ \A a \in DOMAIN audios : audios[a].video_id \in DOMAIN videos
    /\ \A t \in DOMAIN transcripts : transcripts[t].audio_id \in DOMAIN audios
    /\ \A s \in DOMAIN summaries :
          /\ summaries[s].transcript_id \in DOMAIN transcripts
          /\ \/ summaries[s].prompt_template_id = Null
             \/ summaries[s].prompt_template_id \in DOMAIN templates

\* a delete_video that took an Audio and a Transcript with it, while a
\* template is still there
C22_Witness ==
    /\ last.op = "delete_video" /\ last.result = "ok" /\ last.n >= 3
    /\ DOMAIN videos = {}
    /\ DOMAIN templates # {}

\* C23: when a suspended transcribe_audio or summarize_transcript resumes
\* after its parent Audio or Transcript, or the PromptTemplate it resolved,
\* was deleted, it creates no row and does not report success; and every
\* row a resuming stage operation does create references existing rows only.
C23_NoOrphanAfterSuspension ==
    [][\A req \in pending :
          (/\ last'.op = req.op
           /\ req.op \in {"transcribe", "summarize"}
           /\ pending' = pending \ {req}) =>
             /\ (\/ (req.op = "transcribe" /\ req.parent \notin DOMAIN audios)
                 \/ (req.op = "summarize" /\ req.parent \notin DOMAIN transcripts)
                 \/ (req.op = "summarize" /\ req.tpl # Null
                                          /\ req.tpl \notin DOMAIN templates)) =>
                    /\ transcripts' = transcripts
                    /\ summaries' = summaries
                    /\ last'.result # "ok"
             /\ \A t \in DOMAIN transcripts' \ DOMAIN transcripts :
                    transcripts'[t].audio_id \in DOMAIN audios'
             /\ \A s \in DOMAIN summaries' \ DOMAIN summaries :
                    /\ summaries'[s].transcript_id \in DOMAIN transcripts'
                    /\ \/ summaries'[s].prompt_template_id = Null
                       \/ summaries'[s].prompt_template_id \in DOMAIN templates'
    ]_vars

\* a summarization that resumed with its transcript still there but the
\* template it had resolved deleted in the meantime
C23_Witness ==
    /\ last.op = "summarize" /\ last.result = "IntegrityError" /\ last.gw = 1
    /\ last.arg \in DOMAIN transcripts
    /\ DOMAIN templates = {}
    /\ DOMAIN summaries = {}

\* C24: a step of extract_audio, transcribe_audio, summarize_transcript or
\* download_video, successful or failed, leaves the status of every Video
\* and Audio that existed before it as it was; a step that changes the
\* status of an existing Video is update_video_status, and of an existing
\* Audio update_audio_status.
C24_StagesKeepStatus ==
    [][/\ last'.op \in {"extract_audio", "transcribe", "summarize", "download"} =>
             /\ \A v \in DOMAIN videos :
                   v \in DOMAIN videos' /\ videos'[v].status = videos[v].status
             /\ \A a \in DOMAIN audios :
                   a \in DOMAIN audios' /\ audios'[a].status = audios[a].status
       /\ \A v \in DOMAIN videos \cap DOMAIN videos' :
             videos'[v].status # videos[v].status =>
                last'.op = "update_video_status" /\ last'.arg = v
       /\ \A a \in DOMAIN audios \cap DOMAIN audios' :
             audios'[a].status # audios[a].status =>
                last'.op = "update_audio_status" /\ last'.arg = a
    ]_vars

\* a Summary was created for a chain whose Video and Audio still carry
\* their initial statuses
C24_Witness ==
    /\ last.op = "summarize" /\ last.result = "ok"
    /\ DOMAIN summaries # {}
    /\ \A v \in DOMAIN videos : videos[v].status = "uploaded"
    /\ \A a \in DOMAIN audios : audios[a].status = "extracted"
    /\ Cardinality(DOMAIN videos) = 2
    /\ Cardinality(DOMAIN audios) = 2

\* C25: no step of a stage operation stands for more than one gateway call;
\* when the gateway raises, signals failure or returns nothing, the
\* operation ends with a failure, creates no row and leaves no request
\* waiting for a second call.
C25_GatewayFailureEndsOperation ==
    [][/\ last'.op \in {"extract_audio", "transcribe", "summarize", "download"} =>
             /\ last'.gw <= 1
             /\ last'.result \in {"ExtractionFailed", "TranscriptionFailed",
                                  "SummarizationFailed", "EmptyResult",
                                  "DownloadFailed"} =>
                   /\ last'.gw = 1
                   /\ pending' \subseteq pending
                   /\ UNCHANGED <<videos, audios, transcripts, summaries>>
       /\ \A req \in pending : \A raised \in BOOLEAN : \A text \in {"", "x"} :
             (/\ last'.op = "transcribe"
              /\ raised \/ text = ""
              /\ handle_transcription_finish(req, raised, text)) =>
                 /\ last'.result \in {"TranscriptionFailed", "EmptyResult"}
                 /\ pending' = pending \ {req}
                 /\ transcripts' = transcripts
       /\ \A req \in pending : \A raised \in BOOLEAN : \A text \in {"", "x"} :
             (/\ last'.op = "summarize"
              /\ raised \/ text = ""
              /\ handle_summary_generation_finish(req, raised, text)) =>
                 /\ last'.result \in {"SummarizationFailed", "EmptyResult"}
                 /\ pending' = pending \ {req}
                 /\ summaries' = summaries
       /\ \A v \in DOMAIN videos : \A k \in {"raise", "fail"} :
             (/\ last'.op = "extract_audio"
              /\ handle_audio_extraction(v, [kind |-> k, duration |-> Null])) =>
                 /\ last'.result = "ExtractionFailed"
                 /\ audios' = audios
       /\ \A o \in DownloadOutcomes :
             (/\ last'.op = "download"
              /\ o.kind \in {"raise", "null"}
              /\ handle_video_download("https://h/v", o)) =>
                 /\ last'.result # "ok"
                 /\ videos' = videos
    ]_vars

\* a transcription whose gateway call failed: one call made, nothing
\* waiting, the only Transcript is the one of the initial chain
C25_Witness ==
    /\ last.op = "transcribe" /\ last.result = "TranscriptionFailed" /\ last.gw = 1
    /\ pending = {}
    /\ DOMAIN transcripts = {1}
    /\ last.arg \in DOMAIN audios

\* C26: the step of delete_video / delete_audio that removes the row and
\* its cascade leaves the storage as it is, the file is dealt with in the
\* later step that answers; that step answers success and changes no row
\* whether the file was removed or not.
C26_DeleteSwallowsFileErrors ==
    [][\A req \in pending :
          /\ (/\ last'.op = req.op
               /\ req.stage = "checked"
               /\ req.op = "delete_video"
               /\ req.parent \in DOMAIN videos
               /\ delete_video_commit(req)) =>
                  /\ files' = files
                  /\ req.parent \notin DOMAIN videos'
                  /\ \A a \in DOMAIN audios' : audios'[a].video_id # req.parent
          /\ (/\ last'.op = req.op
               /\ req.stage = "checked"
               /\ req.op = "delete_audio"
               /\ req.parent \in DOMAIN audios
               /\ delete_audio_commit(req)) =>
                  /\ files' = files
                  /\ req.parent \notin DOMAIN audios'
                  /\ \A t \in DOMAIN transcripts' : transcripts'[t].audio_id # req.parent
          /\ (/\ last'.op = req.op
               /\ req.stage = "deleted"
               /\ (delete_video_file(req) \/ delete_audio_file(req))) =>
                  /\ last'.result = "ok"
                  /\ UNCHANGED <<videos, audios, transcripts, summaries>>
                  /\ req \notin pending'
    ]_vars

\* delete_video answered success for a Video it removed with its Audio,
\* and the Video's file is still in the storage
C26_Witness ==
    /\ last.op = "delete_video" /\ last.result = "ok" /\ last.n >= 2
    /\ pending = {}
    /\ DOMAIN videos = {} /\ DOMAIN audios = {}
    /\ [stem |-> "a", ext |-> "mp4"] \in files.paths

\* C30: a step of delete_video or delete_audio takes at most one file out
\* of the storage, the file of the row the request read; every other file,
\* the files of the Audio rows removed by the cascade and the file of the
\* parent Video among them, stays.
C30_OnlyOwnFileRemoved ==
    [][last'.op \in {"delete_video", "delete_audio"} =>
          \/ files' = files
          \/ \E req \in pending :
                /\ req.op = last'.op /\ req.parent = last'.arg
                /\ req.stage = "deleted"
                /\ req \notin pending'
                /\ files'.paths = files.paths \ {req.path}
                /\ req.path.ext = IF req.op = "delete_video" THEN "mp4" ELSE "mp3"
    ]_vars

\* delete_video removed the Video with its Audio row and the Video's file;
\* the audio file is left in the storage without a row
C30_Witness ==
    /\ last.op = "delete_video" /\ last.result = "ok" /\ last.n >= 2
    /\ pending = {}
    /\ DOMAIN audios = {}
    /\ [stem |-> "a", ext |-> "mp4"] \notin files.paths
    /\ [stem |-> "a", ext |-> "mp3"] \in files.paths

\* C27: in every state a Video has a source URL exactly when its source
\* kind is download; and every Video row that a step of the upload flow or
\* of the download flow creates has status uploaded, kind upload without a
\* URL from the upload flow, kind download with the requested URL from the
\* download flow.
C27_SourceUrlIffDownload ==
    /\ [](\A v \in DOMAIN videos :
             videos[v].source_url # NoneName <=> videos[v].source_type = "download")
    /\ [][\A v \in DOMAIN videos' \ DOMAIN videos :
             /\ last'.op \in {"upload", "download"}
             /\ videos'[v].status = "uploaded"
             /\ last'.op = "upload" =>
                   /\ videos'[v].source_type = "upload"
                   /\ videos'[v].source_url = NoneName
             /\ last'.op = "download" =>
                   /\ videos'[v].source_type = "download"
                   /\ videos'[v].source_url \in Urls \ {""}
                   /\ is_valid_url(videos'[v].source_url)
       ]_vars

\* an uploaded Video and a downloaded Video side by side in their first
\* status, the second one just created
C27_Witness ==
    /\ last.op = "download" /\ last.result = "ok"
    /\ last.arg \in DOMAIN videos
    /\ videos[last.arg].source_type = "download"
    /\ videos[last.arg].source_url # NoneName
    /\ videos[last.arg].status = "uploaded"
    /\ \E v \in DOMAIN videos :
          /\ videos[v].source_type = "upload"
          /\ videos[v].source_url = NoneName
          /\ videos[v].status = "uploaded"

\* C28: update_video_status / update_audio_status with a value outside the
\* valid set answers InvalidInput and changes no row; with a valid value on
\* an existing row it sets the status to that value, whatever the status
\* was before; and in every state every Video status is one of uploaded,
\* processing, completed, failed and every Audio status one of extracted,
\* processing, completed, failed.
C28_StatusValues ==
    /\ [](/\ \A v \in DOMAIN videos :
                videos[v].status \in {"uploaded", "processing", "completed", "failed"}
          /\ \A a \in DOMAIN audios :
                audios[a].status \in {"extracted", "processing", "completed", "failed"})
    /\ [][/\ \A v \in VideoIds : \A st \in AdminStatusInputs :
                (/\ last'.op = "update_video_status" /\ last'.arg = v
                 /\ update_video_status(v, st)) =>
                    IF st \notin {"uploaded", "processing", "completed", "failed"}
                    THEN last'.result = "InvalidInput" /\ videos' = videos
                    ELSE IF v \in DOMAIN videos
                    THEN /\ last'.result = "ok"
                         /\ videos' = [videos EXCEPT ![v].status = st]
                    ELSE last'.result = "NotFound" /\ videos' = videos
          /\ \A a \in AudioIds : \A st \in AdminStatusInputs :
                (/\ last'.op = "update_audio_status" /\ last'.arg = a
                 /\ update_audio_status(a, st)) =>
                    IF st \notin {"extracted", "processing", "completed", "failed"}
                    THEN last'.result = "InvalidInput" /\ audios' = audios
                    ELSE IF a \in DOMAIN audios
                    THEN /\ last'.result = "ok"
                         /\ audios' = [audios EXCEPT ![a].status = st]
                    ELSE last'.result = "NotFound" /\ audios' = audios
       ]_vars

\* a Video set to uploaded by a status update while another Video is
\* completed and an Audio failed
C28_Witness ==
    /\ last.op = "update_video_status" /\ last.result = "ok"
    /\ last.arg \in DOMAIN videos
    /\ videos[last.arg].status = "uploaded"
    /\ \E v \in DOMAIN videos : videos[v].status = "completed"
    /\ \E a \in DOMAIN audios : audios[a].status = "failed"

\* C29 as stated: a successful delete of a Video, Audio, Transcript or
\* Summary leaves every row that is neither the deleted one nor one of its
\* descendants as it was (other chains, ancestors, every PromptTemplate);
\* a successful delete of a PromptTemplate changes nothing except the
\* template itself and the template reference of the Summaries that
\* referenced it.
C29_DeleteFrameRefOnly ==
    [][LET id == last'.arg
           Kept(t, gone) == t' = Remove(t, gone)
       IN  /\ Deleted("delete_video") =>
                LET as == AudiosOf({id})
                    ts == TranscriptsOf(as)
                IN  /\ Kept(videos, {id}) /\ Kept(audios, as)
                    /\ Kept(transcripts, ts) /\ Kept(summaries, SummariesOf(ts))
                    /\ templates' = templates
           /\ Deleted("delete_audio") =>
                LET ts == TranscriptsOf({id})
                IN  /\ videos' = videos /\ Kept(audios, {id})
                    /\ Kept(transcripts, ts) /\ Kept(summaries, SummariesOf(ts))
                    /\ templates' = templates
           /\ Deleted("delete_transcript") =>
                /\ videos' = videos /\ audios' = audios
                /\ Kept(transcripts, {id}) /\ Kept(summaries, SummariesOf({id}))
                /\ templates' = templates
           /\ Deleted("delete_summary") =>
                /\ videos' = videos /\ audios' = audios /\ transcripts' = transcripts
                /\ Kept(summaries, {id})
                /\ templates' = templates
           /\ Deleted("delete_template") =>
                /\ videos' = videos /\ audios' = audios /\ transcripts' = transcripts
                /\ Kept(templates, {id})
                /\ summaries' = [x \in DOMAIN summaries |->
                      IF summaries[x].prompt_template_id = id
                      THEN [summaries[x] EXCEPT !.prompt_template_id = Null]
                      ELSE summaries[x]]
    ]_vars

\* C29 amended: as above, except that the delete of a PromptTemplate also
\* sets updated_at of the Summaries that referenced it to the time of the
\* delete; their other fields and every other row are unchanged.
C29_DeleteFrame ==
    [][LET id == last'.arg
           Kept(t, gone) == t' = Remove(t, gone)
       IN  /\ Deleted("delete_video") =>
                LET as == AudiosOf({id})
                    ts == TranscriptsOf(as)
                IN  /\ Kept(videos, {id}) /\ Kept(audios, as)
                    /\ Kept(transcripts, ts) /\ Kept(summaries, SummariesOf(ts))
                    /\ templates' = templates
           /\ Deleted("delete_audio") =>
                LET ts == TranscriptsOf({id})
                IN  /\ videos' = videos /\ Kept(audios, {id})
                    /\ Kept(transcripts, ts) /\ Kept(summaries, SummariesOf(ts))
                    /\ templates' = templates
           /\ Deleted("delete_transcript") =>
                /\ videos' = videos /\ audios' = audios
                /\ Kept(transcripts, {id}) /\ Kept(summaries, SummariesOf({id}))
                /\ templates' = templates
           /\ Deleted("delete_summary") =>
                /\ videos' = videos /\ audios' = audios /\ transcripts' = transcripts
                /\ Kept(summaries, {id})
                /\ templates' = templates
           /\ Deleted("delete_template") =>
                /\ videos' = videos /\ audios' = audios /\ transcripts' = transcripts
                /\ Kept(templates, {id})
                /\ summaries' = [x \in DOMAIN summaries |->
                      IF summaries[x].prompt_template_id = id
                      THEN [summaries[x] EXCEPT !.prompt_template_id = Null,
                                                !.updated_at = now']
                      ELSE summaries[x]]
    ]_vars

\* a delete_video that removed a video with its audio and transcript while
\* the other video keeps its audio, its transcript and a summary that
\* references a template
C29_Witness ==
    /\ last.op = "delete_video" /\ last.result = "ok" /\ last.n >= 3
    /\ Cardinality(DOMAIN videos) = 1
    /\ Cardinality(DOMAIN audios) = 1
    /\ \A a \in DOMAIN audios : audios[a].video_id \in DOMAIN videos
    /\ \E x \in DOMAIN summaries :
          /\ summaries[x].prompt_template_id \in DOMAIN templates
          /\ transcripts[summaries[x].transcript_id].audio_id \in DOMAIN audios

====
